---- MODULE Spec2Model ----
(***************************************************************************)
(* IT-ticket severity prediction pipeline: language detector, score        *)
(* scaler and the SeverityPredictor orchestrator.                          *)
(*                                                                         *)
(* Numbers.  Scores are exact rationals <<n, d>> (d > 0, lowest terms);    *)
(* the floating-point rounding of the Python code is not modelled.         *)
(* Texts.  A text is a sequence of characters over Alphabet; None is the   *)
(* distinguished value NoneText.                                           *)
(***************************************************************************)
EXTENDS Integers, Sequences, FiniteSets, TLC

\* ------------------------------------------------------------------ bounds
\* longest ticket text, in characters
MaxLen == 3
\* raw regressor scores seen at fit time lie in 0..MaxRaw
MaxRaw == 2
\* longest batch
MaxBatch == 2

\* ------------------------------------------------------- exact rationals
Abs(n) == IF n < 0 THEN -n ELSE n

RECURSIVE Gcd(_, _)
Gcd(a, b) == IF b = 0 THEN a ELSE Gcd(b, a % b)

\* the rational n/d in lowest terms with a positive denominator
Rat(n, d) ==
    LET s == IF d < 0 THEN -1 ELSE 1
        g == Gcd(Abs(n), Abs(d))
    IN  <<(s * n) \div g, (s * d) \div g>>

RInt(n) == <<n, 1>>
RAdd(a, b) == Rat(a[1] * b[2] + b[1] * a[2], a[2] * b[2])
RSub(a, b) == Rat(a[1] * b[2] - b[1] * a[2], a[2] * b[2])
RMul(a, b) == Rat(a[1] * b[1], a[2] * b[2])
RDiv(a, b) == Rat(a[1] * b[2], a[2] * b[1])
RLe(a, b) == a[1] * b[2] <= b[1] * a[2]
RLt(a, b) == a[1] * b[2] < b[1] * a[2]
RGe(a, b) == RLe(b, a)
RMin(a, b) == IF RLe(a, b) THEN a ELSE b
RMax(a, b) == IF RLe(a, b) THEN b ELSE a

\* ------------------------------------------------------------------ texts
\* " " is whitespace, "a" a word character (\w), "@" a punctuation
\* character that is also the mark of an e-mail address.  No text over this
\* alphabet contains "http", so the URL pattern of _clean_for_detection
\* (language_detector.py:63) matches nothing and is left out.
Alphabet == {" ", "a", "@"}

NoneText == <<"None">>

Strings == UNION {[1..n -> Alphabet] : n \in 0..MaxLen}

Texts == Strings \cup {NoneText}

IsSpace(c) == c = " "
IsWordChar(c) == c = "a"

RECURSIVE LStrip(_)
LStrip(t) == IF t # <<>> /\ IsSpace(Head(t)) THEN LStrip(Tail(t)) ELSE t

RECURSIVE RStrip(_)
RStrip(t) ==
    IF t # <<>> /\ IsSpace(t[Len(t)]) THEN RStrip(SubSeq(t, 1, Len(t) - 1)) ELSE t

\* str.strip()
Strip(t) == RStrip(LStrip(t))

\* Python truthiness of `not text`: None and "" are falsy
Falsy(t) == t = NoneText \/ t = <<>>

\* IsBlank without the strip(): whitespace-only text passes validation
IsBlankNoStrip(t) == Falsy(t)

\* `not text or not text.strip()`
IsBlank(t) == Falsy(t) \/ Strip(t) = <<>>

\* the characters of t at the positions in keep, in order
RECURSIVE Pick(_, _, _)
Pick(t, keep, i) ==
    IF i > Len(t) THEN <<>>
    ELSE (IF i \in keep THEN <<t[i]>> ELSE <<>>) \o Pick(t, keep, i + 1)

SameToken(t, i, k) ==
    \A j \in (IF i < k THEN i ELSE k)..(IF i < k THEN k ELSE i) : ~IsSpace(t[j])

\* position i lies in a match of \S+@\S+ : its token has an "@" with a
\* non-space character on both sides (the greedy match is the whole token)
InEmail(t, i) ==
    \E k \in 2..(Len(t) - 1) :
        /\ t[k] = "@"
        /\ ~IsSpace(t[k - 1])
        /\ ~IsSpace(t[k + 1])
        /\ SameToken(t, i, k)

\* re.sub(r'\S+@\S+', '', text)
RemoveEmails(t) == Pick(t, {i \in 1..Len(t) : ~InEmail(t, i)}, 1)

\* re.sub(r'[^\w\s\u0900-\u097F]', ' ', text)
PunctToSpace(t) ==
    [i \in 1..Len(t) |-> IF IsWordChar(t[i]) \/ IsSpace(t[i]) THEN t[i] ELSE " "]

\* re.sub(r'\s+', ' ', text)
CollapseSpaces(t) ==
    Pick(t, {i \in 1..Len(t) : ~(IsSpace(t[i]) /\ i > 1 /\ IsSpace(t[i - 1]))}, 1)

\* LanguageDetector._clean_for_detection
CleanForDetection(t) == Strip(CollapseSpaces(PunctToSpace(RemoveEmails(t))))

\* ------------------------------------------------------ language detector
\* what the langdetect library does with a text: it reports a language
\* code, or raises (LangDetectException on a text without features)
LangOutcomes == {"en", "hi", "fr", "raise"}

\* LanguageDetector.supported_languages
SupportedLanguages == {"en", "hi"}

\* the result of a call: the value returned, the collaborators invoked and
\* the collaborators that raised
Outcome(r, c, x) == [ret |-> r, calls |-> c, raised |-> x]

\* DetectLanguage without the mapping to the supported languages: the code
\* the library reports is returned as it is
DetectLanguageNoCoerce(text, lib) ==
    IF Falsy(text) \/ Len(Strip(text)) < 3
    THEN Outcome("en", {}, {})
    ELSE IF CleanForDetection(text) = <<>>
         THEN Outcome("en", {}, {})
         ELSE IF lib = "raise"
              THEN Outcome("en", {"langdetect.detect"}, {"langdetect.detect"})
              ELSE Outcome(lib, {"langdetect.detect"}, {})

\* DetectLanguage asking the library without looking at the cleaned text
DetectLanguageNoEmptyCheck(text, lib) ==
    IF Falsy(text) \/ Len(Strip(text)) < 3
    THEN Outcome("en", {}, {})
    ELSE IF lib = "raise"
         THEN Outcome("en", {"langdetect.detect"}, {"langdetect.detect"})
         ELSE IF lib \in SupportedLanguages
              THEN Outcome(lib, {"langdetect.detect"}, {})
              ELSE Outcome("en", {"langdetect.detect"}, {})

\* LanguageDetector.detect_language; lib is the library's outcome, should
\* it be asked
DetectLanguage(text, lib) ==
    IF Falsy(text) \/ Len(Strip(text)) < 3
    THEN Outcome("en", {}, {})
    ELSE LET cleaned_text == CleanForDetection(text)
         IN  IF cleaned_text = <<>>
             THEN Outcome("en", {}, {})
             ELSE IF lib = "raise"
                  THEN Outcome("en", {"langdetect.detect"}, {"langdetect.detect"})
                  ELSE IF lib \in SupportedLanguages
                       THEN Outcome(lib, {"langdetect.detect"}, {})
                       ELSE Outcome("en", {"langdetect.detect"}, {})

\* ------------------------------------------------------------ score scaler
\* An optional value: <<>> is None, <<v>> is v.
None == <<>>
Some(v) == <<v>>

\* SeverityScaler.__init__; the inner MinMaxScaler has feature_range
\* (min_score, max_score) and, once fitted, data_min_ = original_min and
\* data_max_ = original_max
NewScaler(lo, hi) ==
    [is_fitted |-> FALSE, min_score |-> lo, max_score |-> hi,
     original_min |-> None, original_max |-> None]

RECURSIVE SeqMin(_)
SeqMin(s) ==
    IF Len(s) = 1 THEN s[1]
    ELSE LET m == SeqMin(Tail(s)) IN IF s[1] < m THEN s[1] ELSE m

RECURSIVE SeqMax(_)
SeqMax(s) ==
    IF Len(s) = 1 THEN s[1]
    ELSE LET m == SeqMax(Tail(s)) IN IF s[1] > m THEN s[1] ELSE m

\* Fit marking the scaler fitted before it looks at the predictions
FitMarkingEarly(sc, predictions) ==
    IF Len(predictions) = 0
    THEN [ok |-> FALSE, sc |-> [sc EXCEPT !.is_fitted = TRUE]]
    ELSE [ok |-> TRUE,
          sc |-> [sc EXCEPT !.original_min = Some(SeqMin(predictions)),
                            !.original_max = Some(SeqMax(predictions)),
                            !.is_fitted = TRUE]]

\* SeverityScaler.fit: [ok, sc] - ok is FALSE when it raises
Fit(sc, predictions) ==
    IF Len(predictions) = 0
    THEN [ok |-> FALSE, sc |-> sc]
    ELSE [ok |-> TRUE,
          sc |-> [sc EXCEPT !.original_min = Some(SeqMin(predictions)),
                            !.original_max = Some(SeqMax(predictions)),
                            !.is_fitted = TRUE]]

\* MinMaxScaler.transform of a fitted scaler (stage A): X * scale_ + min_,
\* scale_ = (max - min of feature_range) / data_range, a data_range of zero
\* being replaced by 1, and min_ = feature_range min - data_min_ * scale_
BaseScore(sc, x) ==
    LET data_min == sc.original_min[1]
        data_range == sc.original_max[1] - data_min
        scale == Rat(sc.max_score - sc.min_score,
                     IF data_range = 0 THEN 1 ELSE data_range)
        min_ == RSub(RInt(sc.min_score), RMul(RInt(data_min), scale))
    IN  RAdd(RMul(RInt(x), scale), min_)

\* RemapScore with the top band stretched by 9 instead of 10
RemapScoreNarrowTop(score) ==
    IF RGe(score, RInt(60))
    THEN RAdd(RInt(90), RMul(RDiv(RSub(score, RInt(60)), RInt(40)), RInt(9)))
    ELSE IF RGe(score, RInt(40))
         THEN RAdd(RInt(80), RMul(RDiv(RSub(score, RInt(40)), RInt(20)), RInt(9)))
         ELSE RAdd(RInt(10), RMul(RDiv(RSub(score, RInt(10)), RInt(30)), RInt(69)))

\* RemapScore with the middle band stretched by 10 instead of 9
RemapScoreWideMiddle(score) ==
    IF RGe(score, RInt(60))
    THEN RAdd(RInt(90), RMul(RDiv(RSub(score, RInt(60)), RInt(40)), RInt(10)))
    ELSE IF RGe(score, RInt(40))
         THEN RAdd(RInt(80), RMul(RDiv(RSub(score, RInt(40)), RInt(20)), RInt(10)))
         ELSE RAdd(RInt(10), RMul(RDiv(RSub(score, RInt(10)), RInt(30)), RInt(69)))

\* RemapScore with the low band stretched by 72 instead of 69
RemapScoreSteepLow(score) ==
    IF RGe(score, RInt(60))
    THEN RAdd(RInt(90), RMul(RDiv(RSub(score, RInt(60)), RInt(40)), RInt(10)))
    ELSE IF RGe(score, RInt(40))
         THEN RAdd(RInt(80), RMul(RDiv(RSub(score, RInt(40)), RInt(20)), RInt(9)))
         ELSE RAdd(RInt(10), RMul(RDiv(RSub(score, RInt(10)), RInt(30)), RInt(72)))

\* SeverityScaler._remap_score (stage B)
RemapScore(score) ==
    IF RGe(score, RInt(60))
    THEN RAdd(RInt(90), RMul(RDiv(RSub(score, RInt(60)), RInt(40)), RInt(10)))
    ELSE IF RGe(score, RInt(40))
         THEN RAdd(RInt(80), RMul(RDiv(RSub(score, RInt(40)), RInt(20)), RInt(9)))
         ELSE RAdd(RInt(10), RMul(RDiv(RSub(score, RInt(10)), RInt(30)), RInt(69)))

\* Transform clamping its result to [min_score, max_score]
TransformClamped(sc, x) ==
    IF ~sc.is_fitted
    THEN [ok |-> FALSE, val |-> RInt(0)]
    ELSE [ok |-> TRUE,
          val |-> RMin(RMax(RemapScore(BaseScore(sc, x)), RInt(sc.min_score)),
                       RInt(sc.max_score))]

\* SeverityScaler.transform of one raw score: [ok, val]
Transform(sc, x) ==
    IF ~sc.is_fitted
    THEN [ok |-> FALSE, val |-> RInt(0)]
    ELSE [ok |-> TRUE, val |-> RemapScore(BaseScore(sc, x))]

\* SeverityScaler.transform of a list of raw scores: [ok, val]; the inner
\* MinMaxScaler rejects an array of no samples
TransformAll(sc, xs) ==
    IF ~sc.is_fitted \/ Len(xs) = 0
    THEN [ok |-> FALSE, val |-> <<>>]
    ELSE [ok |-> TRUE, val |-> [i \in 1..Len(xs) |-> RemapScore(BaseScore(sc, xs[i]))]]

\* SeverityScaler.inverse_transform of one score: [ok, val]; the inner
\* MinMaxScaler.inverse_transform is (X - min_) / scale_
InverseTransform(sc, y) ==
    IF ~sc.is_fitted
    THEN [ok |-> FALSE, val |-> RInt(0)]
    ELSE LET data_min == sc.original_min[1]
             data_range == sc.original_max[1] - data_min
             scale == Rat(sc.max_score - sc.min_score,
                          IF data_range = 0 THEN 1 ELSE data_range)
             min_ == RSub(RInt(sc.min_score), RMul(RInt(data_min), scale))
         IN  [ok |-> TRUE, val |-> RDiv(RSub(y, min_), scale)]

\* SeverityScaler.save_scaler: [ok, file]; file is the pickled dictionary
\* (the inner MinMaxScaler is given by the bounds and the fitted range)
SaveScaler(sc) ==
    IF ~sc.is_fitted
    THEN [ok |-> FALSE, file |-> <<>>]
    ELSE [ok |-> TRUE,
          file |-> <<[is_fitted |-> sc.is_fitted,
                      min_score |-> sc.min_score,
                      max_score |-> sc.max_score,
                      original_min |-> sc.original_min,
                      original_max |-> sc.original_max]>>]

\* LoadScaler leaving the score bounds of the loading scaler as they are
LoadScalerKeepBounds(sc, file) ==
    [sc EXCEPT !.is_fitted = file.is_fitted,
               !.original_min = file.original_min,
               !.original_max = file.original_max]

\* SeverityScaler.load_scaler of a file save_scaler wrote
LoadScaler(sc, file) ==
    [sc EXCEPT !.is_fitted = file.is_fitted,
               !.min_score = file.min_score,
               !.max_score = file.max_score,
               !.original_min = file.original_min,
               !.original_max = file.original_max]

\* SeverityScaler.get_severity_category
GetSeverityCategory(score) ==
    IF RGe(score, RInt(90)) THEN "High"
    ELSE IF RGe(score, RInt(80)) THEN "Medium"
    ELSE IF RGe(score, RInt(10)) THEN "Low"
    ELSE "Low"

\* SeverityScaler.clip_scores: np.clip(scores, min_score, max_score)
ClipScores(sc, score) ==
    RMin(RMax(score, RInt(sc.min_score)), RInt(sc.max_score))

\* ------------------------------------------------------- the collaborators
\* What the opaque collaborators do in one request.  A field the request
\* never consults holds "unused".
\*   lang   the langdetect library (LangOutcomes)
\*   clean  TextCleaner.clean_text: raises, cleans the text to "", or keeps
\*          a non-empty cleaned text
\*   enc    the sentence-embedding model's encode: a vector, or raises
\*   reg    the regressor's predict: a raw score, or raises
\*   trees  the ensemble members' predict: their predictions, or raises
CleanOutcomes == {"raise", "empty", "kept"}

EncOutcomes == {"ok", "raise"}

RawScores == (0 - 1)..(MaxRaw + 1)

RegOutcomes ==
    {[kind |-> "raise", val |-> 0]} \cup {[kind |-> "ok", val |-> v] : v \in RawScores}

TreeOutcomes ==
    {[kind |-> "raise", preds |-> <<>>]}
        \cup {[kind |-> "ok", preds |-> ps] : ps \in {<<0, 0>>, <<0, 10>>, <<0, 20>>}}

UnusedReg == [kind |-> "unused", val |-> 0]

UnusedTrees == [kind |-> "unused", preds |-> <<>>]

\* TextCleaner.clean_text as the predictor sees it: the cleaned text, which
\* is stripped (text_cleaner.py:89) and may be empty
CleanText(text, clean) == IF clean = "empty" THEN <<>> ELSE Strip(text)

\* ------------------------------------------------------------ the predictor
\* PreprocessText falling back to the empty text when the cleaner raises
PreprocessTextEmptyFallback(text, o) ==
    LET d == DetectLanguage(text, o.lang)
    IN  IF o.clean = "raise"
        THEN Outcome(<<>>, {"detect_language", "clean_text"} \cup d.calls,
                     {"clean_text"} \cup d.raised)
        ELSE Outcome(CleanText(text, o.clean),
                     {"detect_language", "clean_text"} \cup d.calls, d.raised)

\* SeverityPredictor.preprocess_text
PreprocessText(text, o) ==
    LET d == DetectLanguage(text, o.lang)
    IN  IF o.clean = "raise"
        THEN Outcome(text, {"detect_language", "clean_text"} \cup d.calls,
                     {"clean_text"} \cup d.raised)
        ELSE Outcome(CleanText(text, o.clean),
                     {"detect_language", "clean_text"} \cup d.calls, d.raised)

\* EncodeSingleText giving the embedding model every text, blank or not
EncodeSingleTextNoShortcut(text, enc) ==
    IF enc = "raise"
    THEN [ok |-> TRUE, ret |-> "zero",
          calls |-> {"embedding_model.encode"},
          raised |-> {"embedding_model.encode"}]
    ELSE [ok |-> TRUE, ret |-> "vector",
          calls |-> {"embedding_model.encode"}, raised |-> {}]

\* MultilingualEmbeddings.encode_single_text: [ok, ret, calls, raised] - ok
\* is FALSE when the call raises
EncodeSingleText(text, enc) ==
    IF IsBlank(text)
    THEN [ok |-> TRUE, ret |-> "zero", calls |-> {}, raised |-> {}]
    ELSE IF enc = "raise"
         THEN [ok |-> TRUE, ret |-> "zero",
               calls |-> {"embedding_model.encode"},
               raised |-> {"embedding_model.encode"}]
         ELSE [ok |-> TRUE, ret |-> "vector",
               calls |-> {"embedding_model.encode"}, raised |-> {}]

\* SeverityPredictor.extract_features: an exception of the encoder is logged
\* and raised again
ExtractFeatures(text, enc) ==
    LET e == EncodeSingleText(text, enc)
    IN  [e EXCEPT !.calls = @ \cup {"encode_single_text"}]

RECURSIVE SeqSum(_)
SeqSum(s) == IF s = <<>> THEN 0 ELSE s[1] + SeqSum(Tail(s))

\* np.var: the population variance, (n * sum(x^2) - sum(x)^2) / n^2
Variance(xs) ==
    LET n == Len(xs)
        sq == [i \in 1..n |-> xs[i] * xs[i]]
    IN  Rat(n * SeqSum(sq) - SeqSum(xs) * SeqSum(xs), n * n)

\* CalculateConfidence without the clip to [0, 1]
CalculateConfidenceNoClip(p, trees) ==
    IF p.ensemble
    THEN IF trees.kind = "ok"
         THEN Outcome(RSub(RInt(1), RDiv(Variance(trees.preds), RInt(50))),
                      {"estimator.predict"}, {})
         ELSE Outcome(Rat(1, 2), {"estimator.predict"}, {"estimator.predict"})
    ELSE Outcome(Rat(4, 5), {}, {})

\* SeverityPredictor._calculate_confidence
CalculateConfidence(p, trees) ==
    IF p.ensemble
    THEN IF trees.kind = "ok"
         THEN Outcome(RMax(RInt(0),
                           RMin(RInt(1),
                                RSub(RInt(1), RDiv(Variance(trees.preds), RInt(50))))),
                      {"estimator.predict"}, {})
         ELSE Outcome(Rat(1, 2), {"estimator.predict"}, {"estimator.predict"})
    ELSE Outcome(Rat(4, 5), {}, {})

\* the result of predict_single for empty input (predict.py:133-138)
EmptyResult ==
    [severity_score |-> RInt(10), severity_category |-> "Low",
     confidence |-> RInt(0), error |-> "Empty or invalid input text"]

\* DegradedResult without its confidence field
DegradedResultBare(e) ==
    [severity_score |-> RInt(50), severity_category |-> "Medium", error |-> e]

\* the result of predict_single when a step raised (predict.py:174-179)
DegradedResult(e) ==
    [severity_score |-> RInt(50), severity_category |-> "Medium",
     confidence |-> RInt(0), error |-> e]

\* OnException raising the exception again, as predict_batch's handler does
Reraise(e, c, x) == Outcome([exception |-> e], c, x)

\* the except clause of predict_single (predict.py:172-179): the exception
\* is logged and the degraded result returned in its place
OnException(e, c, x) == Outcome(DegradedResult(e), c, x)

\* SeverityPredictor.predict_single on predictor p: [ret, calls, raised]
PredictSingle(p, text, o) ==
    IF IsBlank(text)
    THEN Outcome(EmptyResult, {}, {})
    ELSE
    LET pre == PreprocessText(text, o)
        f == ExtractFeatures(pre.ret, o.enc)
        c1 == pre.calls \cup f.calls
        x1 == pre.raised \cup f.raised
    IN  IF ~f.ok
        THEN OnException("encode failed", c1, x1)
        ELSE IF o.reg.kind # "ok"
        THEN OnException("predict failed",
                         c1 \cup {"model.predict"}, x1 \cup {"model.predict"})
        ELSE
        LET t == Transform(p.scaler, o.reg.val)
            c2 == c1 \cup {"model.predict", "scaler.transform"}
        IN  IF ~t.ok
            THEN OnException("Scaler must be fitted before transform",
                             c2, x1 \cup {"scaler.transform"})
            ELSE
            LET severity_score == ClipScores(p.scaler, t.val)
                conf == CalculateConfidence(p, o.trees)
                lang == DetectLanguage(text, o.lang)
            IN  Outcome([severity_score |-> severity_score,
                         severity_category |-> GetSeverityCategory(severity_score),
                         confidence |-> conf.ret,
                         processed_text |-> pre.ret,
                         detected_language |-> lang.ret],
                        c2 \cup {"scaler.clip_scores", "scaler.get_severity_category",
                                 "detect_language"}
                           \cup conf.calls \cup lang.calls,
                        x1 \cup conf.raised \cup lang.raised)

\* SeverityPredictor.validate_prediction
ValidatePrediction(prediction) ==
    IF ~({"severity_score", "severity_category"} \subseteq DOMAIN prediction)
    THEN FALSE
    ELSE IF ~(RLe(RInt(10), prediction.severity_score)
              /\ RLe(prediction.severity_score, RInt(100)))
    THEN FALSE
    ELSE IF prediction.severity_category \notin {"High", "Medium", "Low"}
    THEN FALSE
    ELSE TRUE

\* SeverityPredictor.predict_batch: the results of items[i..], each tagged
\* with its index in the input (enumerate counts from 0)
RECURSIVE BatchFrom(_, _, _)
BatchFrom(p, items, i) ==
    IF i > Len(items) THEN <<>>
    ELSE LET r == PredictSingle(p, items[i].text, items[i].o)
         IN  <<[r EXCEPT !.ret = @ @@ [ticket_index |-> i - 1]]>>
                 \o BatchFrom(p, items, i + 1)

\* PredictBatch tagging the results from 1 instead of 0
RECURSIVE BatchFromOneBased(_, _, _)
BatchFromOneBased(p, items, i) ==
    IF i > Len(items) THEN <<>>
    ELSE LET r == PredictSingle(p, items[i].text, items[i].o)
         IN  <<[r EXCEPT !.ret = @ @@ [ticket_index |-> i]]>>
                 \o BatchFromOneBased(p, items, i + 1)

PredictBatchOneBased(p, items) == BatchFromOneBased(p, items, 1)

PredictBatch(p, items) == BatchFrom(p, items, 1)

\* ---------------------------------------------------------------- state
\* pred    the loaded SeverityPredictor: its scaler and whether its
\*         regressor is an ensemble exposing estimators_
\* sc      a SeverityScaler object of its own (training side)
\* fitted  the raw scores sc was last fitted on (history)
\* pc      "idle", or "done" once a call has returned
\* op      the operation that returned, arg its input, out what it returned
VARIABLES pred, sc, fitted, pc, op, arg, out

vars == <<pred, sc, fitted, pc, op, arg, out>>

\* SeverityScaler(min_score, max_score) as configured by the trainer
\* (train_model.py:40-43); (10, 100) is the default
ScoreBounds == {<<10, 100>>, <<0, 200>>}

\* the scaler states load_scaler can install (severity_scaler.py:299-304):
\* a fitted scaler as save_scaler wrote it, or a file with is_fitted False
LoadedScalers ==
    {[is_fitted |-> TRUE, min_score |-> b[1], max_score |-> b[2],
      original_min |-> Some(lo), original_max |-> Some(hi)] :
        b \in ScoreBounds, lo \in 0..MaxRaw, hi \in 0..MaxRaw}
    \cup {NewScaler(b[1], b[2]) : b \in ScoreBounds}

\* SeverityPredictor._load_components: the predictors that can be loaded
Predictors ==
    {[scaler |-> s, ensemble |-> e] :
        s \in {l \in LoadedScalers :
                 l.is_fitted => l.original_min[1] <= l.original_max[1]},
        e \in BOOLEAN}

\* the library is asked about this text
LangDomain(text) ==
    IF DetectLanguage(text, "en").calls # {} THEN LangOutcomes ELSE {"unused"}

\* the embedding model is asked about the processed text
EncDomain(text, l, c) ==
    IF EncodeSingleText(PreprocessText(text, [lang |-> l, clean |-> c]).ret, "ok").calls # {}
    THEN EncOutcomes ELSE {"unused"}

\* the ensemble members are asked
TreesDomain(p, r) ==
    IF p.ensemble /\ p.scaler.is_fitted /\ r.kind = "ok"
    THEN TreeOutcomes ELSE {UnusedTrees}

\* the behaviours of the collaborators in a request for text on p
Oracles(p, text) ==
    IF IsBlank(text)
    THEN {[lang |-> "unused", clean |-> "unused", enc |-> "unused",
           reg |-> UnusedReg, trees |-> UnusedTrees]}
    ELSE UNION {UNION {UNION {UNION {
            {[lang |-> l, clean |-> c, enc |-> e, reg |-> r, trees |-> t] :
                t \in TreesDomain(p, r)} :
            r \in RegOutcomes} :
            e \in EncDomain(text, l, c)} :
            c \in CleanOutcomes} :
            l \in LangDomain(text)}

\* the tickets a batch is drawn from: an empty and a non-empty text, the
\* encoder and the regressor working or raising
BatchItems(p) ==
    {[text |-> t, o |-> o] : t \in {<<>>, <<"a">>},
        o \in {q \in Oracles(p, <<"a">>) \cup Oracles(p, <<>>) :
                 /\ q.clean \in {"kept", "unused"}
                 /\ q.reg.val \in {0, MaxRaw}
                 /\ q.trees.preds \in {<<>>, <<0, 10>>}
                 /\ q.trees.kind # "raise"}}

Batches(p) ==
    UNION {[1..n -> {i \in BatchItems(p) : i.o \in Oracles(p, i.text)}] : n \in 0..MaxBatch}

Init ==
    /\ pred \in Predictors
    /\ sc = NewScaler(10, 100)
    /\ fitted = <<>>
    /\ pc = "idle"
    /\ op = "none"
    /\ arg = <<>>
    /\ out = <<>>

\* a caller runs predict_single(ticket_text)
PredictSingleCall ==
    /\ pc = "idle"
    /\ \E text \in Texts : \E o \in Oracles(pred, text) :
        /\ arg' = <<[text |-> text, o |-> o]>>
        /\ out' = <<PredictSingle(pred, text, o)>>
    /\ pc' = "done"
    /\ op' = "predict_single"
    /\ UNCHANGED <<pred, sc, fitted>>

\* a caller runs predict_batch(ticket_texts)
PredictBatchCall ==
    /\ pc = "idle"
    /\ \E items \in Batches(pred) :
        /\ arg' = items
        /\ out' = PredictBatch(pred, items)
    /\ pc' = "done"
    /\ op' = "predict_batch"
    /\ UNCHANGED <<pred, sc, fitted>>

\* a caller runs detect_language(text)
DetectLanguageCall ==
    /\ pc = "idle"
    /\ \E text \in Texts : \E lib \in LangDomain(text) :
        /\ arg' = <<[text |-> text, lib |-> lib]>>
        /\ out' = <<DetectLanguage(text, lib)>>
    /\ pc' = "done"
    /\ op' = "detect_language"
    /\ UNCHANGED <<pred, sc, fitted>>

\* the caller has its result; the request's data is dropped
Discard ==
    /\ pc = "done"
    /\ pc' = "idle"
    /\ op' = "none"
    /\ arg' = <<>>
    /\ out' = <<>>
    /\ UNCHANGED <<pred, sc, fitted>>

Next ==
    \/ PredictSingleCall
    \/ PredictBatchCall
    \/ DetectLanguageCall
    \/ Discard

Spec == Init /\ [][Next]_vars

\* ------------------------------------------------- the scaler on its own
\* longest list of raw scores given to fit or transform
MaxFit == 3

RawLists == UNION {[1..n -> 0..MaxRaw] : n \in 0..MaxFit}

InitScaler ==
    /\ pred = [scaler |-> NewScaler(10, 100), ensemble |-> FALSE]
    /\ sc \in {NewScaler(b[1], b[2]) : b \in ScoreBounds}
    /\ fitted = <<>>
    /\ pc = "idle"
    /\ op = "none"
    /\ arg = <<>>
    /\ out = <<>>

\* scaler.fit(predictions)
FitCall ==
    /\ pc = "idle"
    /\ \E predictions \in RawLists :
        LET r == Fit(sc, predictions)
        IN  /\ sc' = r.sc
            /\ fitted' = IF r.ok THEN predictions ELSE fitted
            /\ arg' = predictions
            /\ out' = <<[ok |-> r.ok]>>
    /\ pc' = "done"
    /\ op' = "fit"
    /\ UNCHANGED pred

\* scaler.transform(raw_score)
TransformCall ==
    /\ pc = "idle"
    /\ \E x \in RawScores :
        /\ arg' = <<x>>
        /\ out' = <<Transform(sc, x)>>
    /\ pc' = "done"
    /\ op' = "transform"
    /\ UNCHANGED <<pred, sc, fitted>>

\* scaler.transform(raw_scores)
TransformAllCall ==
    /\ pc = "idle"
    /\ \E xs \in RawLists :
        /\ arg' = xs
        /\ out' = <<TransformAll(sc, xs)>>
    /\ pc' = "done"
    /\ op' = "transform_all"
    /\ UNCHANGED <<pred, sc, fitted>>

\* the scores given to clip_scores, get_severity_category and _remap_score:
\* the halves from -5 to 105, and some scores far above
ScoreGrid == {Rat(n, 2) : n \in (0 - 10)..210} \cup {RInt(150), RInt(200), RInt(250)}

\* scaler.get_severity_category(score)
CategoryCall ==
    /\ pc = "idle"
    /\ \E score \in ScoreGrid :
        /\ arg' = <<score>>
        /\ out' = <<GetSeverityCategory(score)>>
    /\ pc' = "done"
    /\ op' = "get_severity_category"
    /\ UNCHANGED <<pred, sc, fitted>>

\* scaler.clip_scores(score)
ClipCall ==
    /\ pc = "idle"
    /\ \E score \in ScoreGrid :
        /\ arg' = <<score>>
        /\ out' = <<ClipScores(sc, score)>>
    /\ pc' = "done"
    /\ op' = "clip_scores"
    /\ UNCHANGED <<pred, sc, fitted>>

\* scaler._remap_score(score)
RemapCall ==
    /\ pc = "idle"
    /\ \E score \in ScoreGrid :
        /\ arg' = <<score>>
        /\ out' = <<RemapScore(score)>>
    /\ pc' = "done"
    /\ op' = "remap_score"
    /\ UNCHANGED <<pred, sc, fitted>>

\* scaler.inverse_transform(score), of a score of the grid or of the score
\* transform gives a raw score
InverseTransformCall ==
    /\ pc = "idle"
    /\ \E y \in ScoreGrid \cup
                (IF sc.is_fitted THEN {Transform(sc, x).val : x \in RawScores} ELSE {}) :
        /\ arg' = <<y>>
        /\ out' = <<InverseTransform(sc, y)>>
    /\ pc' = "done"
    /\ op' = "inverse_transform"
    /\ UNCHANGED <<pred, sc, fitted>>

\* scaler.save_scaler(filepath)
SaveCall ==
    /\ pc = "idle"
    /\ arg' = <<>>
    /\ out' = <<SaveScaler(sc)>>
    /\ pc' = "done"
    /\ op' = "save_scaler"
    /\ UNCHANGED <<pred, sc, fitted>>

NextScaler ==
    \/ FitCall
    \/ TransformCall
    \/ TransformAllCall
    \/ CategoryCall
    \/ ClipCall
    \/ RemapCall
    \/ InverseTransformCall
    \/ SaveCall
    \/ Discard

SpecScaler == InitScaler /\ [][NextScaler]_vars

\* ----------------------------------------------------------- persistence
\* The trainer's scaler sc is fitted and saved; a fresh SeverityScaler,
\* pred.scaler, loads the file (predict.py:50-54).
FreshLoader == [scaler |-> NewScaler(10, 100), ensemble |-> FALSE]

\* SeverityScaler().load_scaler(filepath) on the file the last save wrote
LoadCall ==
    /\ pc = "done"
    /\ op = "save_scaler"
    /\ out[1].ok
    /\ pred' = [pred EXCEPT !.scaler = LoadScaler(NewScaler(10, 100), out[1].file[1])]
    /\ arg' = out[1].file
    /\ out' = <<[ok |-> TRUE]>>
    /\ pc' = "done"
    /\ op' = "load_scaler"
    /\ UNCHANGED <<sc, fitted>>

\* the call is over, and the scaler that loaded is dropped
DropLoaded ==
    /\ pc = "done"
    /\ pc' = "idle"
    /\ op' = "none"
    /\ arg' = <<>>
    /\ out' = <<>>
    /\ pred' = FreshLoader
    /\ UNCHANGED <<sc, fitted>>

NextPersist ==
    \/ FitCall
    \/ SaveCall
    \/ LoadCall
    \/ DropLoaded

SpecPersist == InitScaler /\ [][NextPersist]_vars

\* --------------------------------------------------------------- startup
\* The model directory SeverityPredictor(model_dir) reads:
\*   model     severity_model.pkl: missing, corrupt (joblib.load raises), or
\*             a regressor with or without estimators_
\*   scaler    severity_scaler.pkl: missing, corrupt (pickle.load raises or
\*             a key is absent), or the scaler state it holds
\*   info      embeddings_info.pkl: missing, corrupt (joblib.load raises or
\*             no model_name key), or holding the trained model name
\*   embedder  SentenceTransformer(model_name): loads, or raises
ModelDirs ==
    {[model |-> m, scaler |-> s, info |-> i, embedder |-> e] :
        m \in {"missing", "corrupt", "plain", "ensemble"},
        s \in {[kind |-> "missing", state |-> NewScaler(10, 100)],
               [kind |-> "corrupt", state |-> NewScaler(10, 100)]}
              \cup {[kind |-> "ok", state |-> l] :
                      l \in {q \in LoadedScalers :
                               q.is_fitted => q.original_min[1] <= q.original_max[1]}},
        i \in {"missing", "corrupt", "trained"},
        e \in {"ok", "raise"}}

\* the model name of MultilingualEmbeddings when embeddings_info.pkl is absent
DefaultModelName == "paraphrase-multilingual-MiniLM-L12-v2"

\* SeverityPredictor._load_components: [ok, predictor]; ok is FALSE when
\* it raises, and the predictor is then never bound
LoadComponents(dir) ==
    LET failed == [ok |-> FALSE, predictor |-> <<>>]
    IN  IF dir.model \in {"missing", "corrupt"} THEN failed
        ELSE IF dir.scaler.kind # "ok" THEN failed
        ELSE IF dir.info = "corrupt" THEN failed
        ELSE IF dir.embedder = "raise" THEN failed
        ELSE [ok |-> TRUE,
              predictor |-> <<[scaler |-> dir.scaler.state,
                               ensemble |-> dir.model = "ensemble",
                               model_name |-> IF dir.info = "trained"
                                              THEN "trained"
                                              ELSE DefaultModelName]>>]

\* no predictor is bound before startup (app.py:68)
InitStartup ==
    /\ pred = <<>>
    /\ sc = NewScaler(10, 100)
    /\ fitted = <<>>
    /\ pc = "idle"
    /\ op = "none"
    /\ arg = <<>>
    /\ out = <<>>

\* startup: predictor = SeverityPredictor(model_dir) (app.py:314)
ConstructCall ==
    /\ pc = "idle"
    /\ pred = <<>>
    /\ \E dir \in ModelDirs :
        LET r == LoadComponents(dir)
        IN  /\ pred' = r.predictor
            /\ arg' = <<dir>>
            /\ out' = <<[ok |-> r.ok]>>
    /\ pc' = "done"
    /\ op' = "construct"
    /\ UNCHANGED <<sc, fitted>>

\* the tickets the started service is asked about
ServedTexts == {<<>>, <<"a">>}

\* a request is served by the constructed predictor
ServeCall ==
    /\ pc = "idle"
    /\ pred # <<>>
    /\ \E text \in ServedTexts : \E o \in Oracles(pred[1], text) :
        /\ arg' = <<[text |-> text, o |-> o]>>
        /\ out' = <<PredictSingle(pred[1], text, o)>>
    /\ pc' = "done"
    /\ op' = "predict_single"
    /\ UNCHANGED <<pred, sc, fitted>>

NextStartup ==
    \/ ConstructCall
    \/ ServeCall
    \/ Discard

SpecStartup == InitStartup /\ [][NextStartup]_vars

\* ------------------------------------------------------- the /predict route
\* the ticket texts posted to /predict
RequestTexts == {<<>>, <<" ">>, <<"a">>, <<" ", "a">>, <<"a", " ">>}

\* TicketRequest.validate_ticket_text: [ok, text]; the handler sees the
\* stripped text, an empty or whitespace-only one is rejected
ValidateTicketText(v) ==
    IF Len(v) < 1 \/ Strip(v) = <<>>
    THEN [ok |-> FALSE, text |-> v]
    ELSE [ok |-> TRUE, text |-> Strip(v)]

\* an HTTPException raised by the route
HttpError(status, detail) == [status |-> status, detail |-> detail]

\* SeverityResponse built from a predictor result
SeverityResponse(result, ticket_text) ==
    [status |-> 200,
     severity_score |-> result.severity_score,
     severity_category |-> result.severity_category,
     confidence |-> IF "confidence" \in DOMAIN result
                    THEN result.confidence ELSE RInt(0),
     detected_language |-> IF "detected_language" \in DOMAIN result
                           THEN result.detected_language ELSE "unknown",
     processed_text |-> IF "processed_text" \in DOMAIN result
                        THEN result.processed_text ELSE ticket_text]

\* predict_severity answering a failed prediction with the middle score, as
\* the batch route does for its items
PredictSeverityFallback(predictor, ticket_text, o) ==
    IF predictor = <<>>
    THEN HttpError(503, "Model not initialized")
    ELSE LET result == PredictSingle(predictor[1], ticket_text, o).ret
         IN  IF "error" \in DOMAIN result \/ ~ValidatePrediction(result)
             THEN SeverityResponse(DegradedResult("failed"), ticket_text)
             ELSE SeverityResponse(result, ticket_text)

\* predict_severity on a validated request; predictor is <<>> while the
\* module's global is None
PredictSeverity(predictor, ticket_text, o) ==
    IF predictor = <<>>
    THEN HttpError(503, "Model not initialized")
    ELSE IF Strip(ticket_text) = <<>>
    THEN HttpError(400, "Ticket text cannot be empty")
    ELSE LET result == PredictSingle(predictor[1], ticket_text, o).ret
         IN  IF "error" \in DOMAIN result
             THEN HttpError(500, "Prediction failed")
             ELSE IF ~ValidatePrediction(result)
             THEN HttpError(500, "Invalid prediction result")
             ELSE SeverityResponse(result, ticket_text)

\* POST /predict: the request model is validated before the route runs
PredictSeverityCall ==
    /\ pc = "idle"
    /\ \E v \in RequestTexts :
        LET req == ValidateTicketText(v)
        IN  \E o \in (IF pred = <<>> THEN Oracles([scaler |-> sc], <<>>)
                      ELSE Oracles(pred[1], req.text)) :
              /\ arg' = <<[text |-> v, o |-> o]>>
              /\ out' = <<IF ~req.ok
                          THEN HttpError(422, "validation error")
                          ELSE PredictSeverity(pred, req.text, o)>>
    /\ pc' = "done"
    /\ op' = "predict_severity"
    /\ UNCHANGED <<pred, sc, fitted>>

NextApi ==
    \/ ConstructCall
    \/ PredictSeverityCall
    \/ Discard

SpecApi == InitStartup /\ [][NextApi]_vars

\* ---------------------------------------------------------- text cleaner
\* TextCleaner works on words.  A ticket is here the sequence of its
\* whitespace-separated tokens; the token "" stands for a further run of
\* whitespace between its neighbours (two blanks, a tab, a newline), so
\* <<"sign", "in">> is "sign in" and <<"sign", "", "in">> is "sign  in".
\* "hai" stands for the Hindi stopword of that sound (U+0939 U+0948).
MaxTokens == 3

Vocabulary ==
    {"", "sign", "in", "on", "the", "The", "hai", "-", "x", "down", "bug",
     "logon", "u@h.c", "!!"}

Tickets == UNION {[1..n -> Vocabulary] : n \in 0..MaxTokens}

\* the tokens the steps of clean_text can meet, and those that are words
Tokens == Vocabulary \cup {"!", "login", "error"}
Words == Tokens \ {""}

\* stopwords.words('english'), as far as the vocabulary goes
EnglishStopwords == {"the", "in", "on", "down"}
\* TextCleaner.hindi_stopwords, as far as the vocabulary goes
HindiStopwords == {"hai"}
\* TextCleaner.preserve_terms, as far as the vocabulary goes
PreserveTerms == {"down", "login", "error", "bug"}
\* important_short of _final_cleanup, as far as the vocabulary goes
ImportantShort == {"in", "on"}
\* the tokens of one character
OneCharTokens == {"-", "x", "!"}
\* the tokens that are one punctuation character
PunctTokens == {"-", "!"}

\* the tokens of ws for which keep holds, in order
RECURSIVE Keep(_, _)
Keep(ws, keep) ==
    IF ws = <<>> THEN <<>>
    ELSE IF Head(ws) \in keep
         THEN <<Head(ws)>> \o Keep(Tail(ws), keep)
         ELSE Keep(Tail(ws), keep)

\* str.lower of a token
LowerToken(w) == IF w = "The" THEN "the" ELSE w

\* TextCleaner._basic_clean: a run of exclamation marks becomes one (the
\* vocabulary holds no tag, no run of question marks or dots, no quote)
BasicClean(ws) == [i \in 1..Len(ws) |-> IF ws[i] = "!!" THEN "!" ELSE ws[i]]

\* TextCleaner._remove_urls_emails: \S+@\S+\.\S+ is cut out and the
\* whitespace on both its sides stays
RemoveUrlsEmails(ws) == [i \in 1..Len(ws) |-> IF ws[i] = "u@h.c" THEN "" ELSE ws[i]]

\* \bsign in\b -> login (second = "in") and \bsign on\b -> login
\* (second = "on"), re.IGNORECASE: the two words with one blank between
\* them, replaced from left to right
RECURSIVE ReplacePair(_, _)
ReplacePair(ws, second) ==
    IF Len(ws) < 2 THEN ws
    ELSE IF ws[1] = "sign" /\ ws[2] = second
         THEN <<"login">> \o ReplacePair(Tail(Tail(ws)), second)
         ELSE <<Head(ws)>> \o ReplacePair(Tail(ws), second)

\* the one-word replacements of _normalize_it_terms
NormalizeWord(w) ==
    IF w = "logon" THEN "login"
    ELSE IF w = "bug" THEN "error"
    ELSE w

\* TextCleaner._normalize_it_terms: the replacements in the order of the
\* dictionary (logon before the pairs, bug after them)
NormalizeItTerms(ws) ==
    LET a == [i \in 1..Len(ws) |-> IF ws[i] = "logon" THEN "login" ELSE ws[i]]
        b == ReplacePair(ReplacePair(a, "in"), "on")
    IN  [i \in 1..Len(b) |-> NormalizeWord(b[i])]

\* TextCleaner._normalize_whitespace: every run of whitespace becomes one
\* blank, and the text is stripped
NormalizeWhitespace(ws) == Keep(ws, Words)

\* text.lower()
Lower(ws) == [i \in 1..Len(ws) |-> LowerToken(ws[i])]

\* RemoveStopwords without the preserve-set
RemoveStopwordsNoPreserve(ws, language, tok) ==
    IF tok = "raise" THEN ws
    ELSE LET stopwords_set == IF language = "hi" THEN HindiStopwords
                              ELSE EnglishStopwords
         IN  Keep(ws, {w \in Tokens : LowerToken(w) \notin stopwords_set})

\* TextCleaner._remove_stopwords; tok is word_tokenize's outcome ("ok" or
\* "raise"), each token of the vocabulary being one token for it
RemoveStopwords(ws, language, tok) ==
    IF tok = "raise" THEN ws
    ELSE LET stopwords_set == IF language = "hi" THEN HindiStopwords
                              ELSE EnglishStopwords
         IN  Keep(ws, {w \in Tokens :
                         LowerToken(w) \notin stopwords_set
                         \/ LowerToken(w) \in PreserveTerms})

\* re.sub(r'\s+[^\w\s]\s+', ' ', text): a punctuation character with
\* whitespace on both sides goes; matches do not overlap, so of two such
\* neighbours the second stays
RECURSIVE RemoveStandalone(_, _)
RemoveStandalone(ws, first) ==
    IF ws = <<>> THEN <<>>
    ELSE IF ~first /\ Len(ws) >= 2 /\ Head(ws) \in PunctTokens
         THEN IF ws[2] \in PunctTokens
              THEN <<ws[2]>> \o RemoveStandalone(Tail(Tail(ws)), FALSE)
              ELSE RemoveStandalone(Tail(ws), FALSE)
         ELSE <<Head(ws)>> \o RemoveStandalone(Tail(ws), FALSE)

\* TextCleaner._final_cleanup
FinalCleanup(ws) ==
    LET a == RemoveStandalone(ws, TRUE)
        b == Keep(a, Words)
    IN  Keep(b, {w \in Tokens :
                   w \notin OneCharTokens \/ LowerToken(w) \in ImportantShort})

\* clean_text(None, language)
NoneTicket == <<"None">>

\* steps 1 to 5 of clean_text: the text given to _remove_stopwords
BeforeStopwords(text) ==
    Lower(NormalizeWhitespace(NormalizeItTerms(RemoveUrlsEmails(BasicClean(text)))))

\* CleanTextPipeline letting the tokenizer's exception out
CleanTextPipelineUncaught(text, language, tok) ==
    IF text = NoneTicket \/ text = <<>>
    THEN <<>>
    ELSE IF tok = "raise"
         THEN <<"LookupError">>
         ELSE FinalCleanup(RemoveStopwords(BeforeStopwords(text), language, tok))

\* TextCleaner.clean_text(text, language) of a TextCleaner built with
\* remove_stopwords and lowercase, as the predictor builds it
CleanTextPipeline(text, language, tok) ==
    IF text = NoneTicket \/ text = <<>>
    THEN <<>>
    ELSE FinalCleanup(RemoveStopwords(BeforeStopwords(text), language, tok))

Languages == {"en", "hi"}
TokenizerOutcomes == {"ok", "raise"}

InitCleaner ==
    /\ pred = [scaler |-> NewScaler(10, 100), ensemble |-> FALSE]
    /\ sc = NewScaler(10, 100)
    /\ fitted = <<>>
    /\ pc = "idle"
    /\ op = "none"
    /\ arg = <<>>
    /\ out = <<>>

\* cleaner.clean_text(text, language)
CleanTextCall ==
    /\ pc = "idle"
    /\ \E text \in Tickets \cup {NoneTicket}, language \in Languages,
          tok \in TokenizerOutcomes :
        /\ arg' = <<[text |-> text, language |-> language, tok |-> tok]>>
        /\ out' = <<CleanTextPipeline(text, language, tok)>>
    /\ pc' = "done"
    /\ op' = "clean_text"
    /\ UNCHANGED <<pred, sc, fitted>>

\* cleaner.clean_text(cleaned, language) on the text the last call returned
CleanAgainCall ==
    /\ pc = "done"
    /\ op = "clean_text"
    /\ arg' = <<[text |-> out[1], language |-> arg[1].language, tok |-> arg[1].tok]>>
    /\ out' = <<CleanTextPipeline(out[1], arg[1].language, arg[1].tok)>>
    /\ pc' = "done"
    /\ op' = "clean_again"
    /\ UNCHANGED <<pred, sc, fitted>>

\* step 6 of clean_text: cleaner._remove_stopwords(text, language) on the
\* text steps 1 to 5 made of a ticket
RemoveStopwordsCall ==
    /\ pc = "idle"
    /\ \E text \in Tickets, language \in Languages, tok \in TokenizerOutcomes :
        /\ arg' = <<[text |-> BeforeStopwords(text), language |-> language, tok |-> tok]>>
        /\ out' = <<RemoveStopwords(BeforeStopwords(text), language, tok)>>
    /\ pc' = "done"
    /\ op' = "remove_stopwords"
    /\ UNCHANGED <<pred, sc, fitted>>

NextCleaner ==
    \/ CleanTextCall
    \/ CleanAgainCall
    \/ RemoveStopwordsCall
    \/ Discard

SpecCleaner == InitCleaner /\ [][NextCleaner]_vars

\* ------------------------------------------------------ repeated requests
\* The collaborators of one loaded predictor as functions of what they are
\* given: the cleaner of the text and its language, the embedding model of
\* the processed text, the regressor of the feature vector (<<>> is the zero
\* vector, any other key the embedding of that text), and the detection
\* library, seeded once at import (language_detector.py:7), of the text.
RepeatTexts == {<<"a">>, <<"a", "a", "a">>}

Environments ==
    {[lang |-> l, clean |-> c, enc |-> e, reg |-> r] :
        l \in {f \in [RepeatTexts -> LangOutcomes \cup {"unused"}] :
                 \A t \in RepeatTexts : f[t] \in LangDomain(t)},
        c \in {f \in [RepeatTexts \X SupportedLanguages -> {"empty", "kept", "unused"}] :
                 \A t \in RepeatTexts : \A g \in SupportedLanguages :
                    IF g = "hi" /\ LangDomain(t) = {"unused"}
                    THEN f[<<t, g>>] = "unused"
                    ELSE f[<<t, g>>] \in {"empty", "kept"}},
        e \in [RepeatTexts -> EncOutcomes],
        r \in [RepeatTexts \cup {<<>>} ->
                 {q \in RegOutcomes : q.kind = "ok" /\ q.val \in {0, MaxRaw}}]}

\* the batches that come between the repeated requests
RepeatBatches == {<<<<"a", "a", "a">>>>, <<<<"a">>, <<"a", "a", "a">>>>}

\* detect(cleaned_text) without DetectorFactory.seed: langdetect draws its
\* answer anew in each call
LibraryDetectUnseeded(env, text, draw) ==
    IF env.lang[text] = "unused" THEN "unused" ELSE draw

\* detect(cleaned_text) under DetectorFactory.seed = 0: the answer is a
\* function of the text
LibraryDetect(env, text, draw) == env.lang[text]

\* what the collaborators do in a request for text, each being asked about
\* what the step before it produced
OracleFor(env, text, draw) ==
    LET l == LibraryDetect(env, text, draw)
        c == env.clean[<<text, DetectLanguage(text, l).ret>>]
        processed == PreprocessText(text, [lang |-> l, clean |-> c]).ret
        e == IF IsBlank(processed) THEN "unused" ELSE env.enc[processed]
        f == ExtractFeatures(processed, e)
        r == env.reg[IF f.ret = "zero" THEN <<>> ELSE processed]
    IN  [lang |-> l, clean |-> c, enc |-> e, reg |-> r, trees |-> UnusedTrees]

\* nothing is remembered of earlier requests but, for the comparison, the
\* first result of predict_single for each text and whether the text was
\* asked about again
NoMemo == [t \in RepeatTexts |-> <<>>]

InitRepeat ==
    /\ pred \in {[scaler |-> [is_fitted |-> TRUE, min_score |-> 10, max_score |-> 100,
                               original_min |-> Some(0), original_max |-> Some(MaxRaw)],
                  ensemble |-> FALSE, env |-> v] : v \in Environments}
    /\ sc = NewScaler(10, 100)
    /\ fitted = <<>>
    /\ pc = "idle"
    /\ op = "none"
    /\ arg = <<>>
    /\ out = <<<<>>, NoMemo>>

\* predictor.predict_single(text)
RepeatPredictCall ==
    /\ \E text \in RepeatTexts, draw \in SupportedLanguages :
        LET r == PredictSingle(pred, text, OracleFor(pred.env, text, draw)).ret
        IN  /\ arg' = <<text>>
            /\ out' = <<<<r>>, IF out[2][text] = <<>>
                               THEN [out[2] EXCEPT ![text] = <<r, FALSE>>]
                               ELSE [out[2] EXCEPT ![text] = <<@[1], TRUE>>]>>
    /\ pc' = "done"
    /\ op' = "predict_single"
    /\ UNCHANGED <<pred, sc, fitted>>

\* predictor.predict_batch(texts)
RepeatBatchCall ==
    /\ \E texts \in RepeatBatches : \E draws \in [1..Len(texts) -> SupportedLanguages] :
        /\ arg' = texts
        /\ out' = <<PredictBatch(pred,
                        [i \in 1..Len(texts) |-> [text |-> texts[i],
                                         o |-> OracleFor(pred.env, texts[i], draws[i])]]),
                    out[2]>>
    /\ pc' = "done"
    /\ op' = "predict_batch"
    /\ UNCHANGED <<pred, sc, fitted>>

NextRepeat ==
    \/ RepeatPredictCall
    \/ RepeatBatchCall

SpecRepeat == InitRepeat /\ [][NextRepeat]_vars

\* ---------------------------------------------------- concurrent requests
\* Requests run predict_single or predict_batch on the one loaded predictor
\* and interleave statement by statement.  Here pc, arg and out are
\* functions of the request: pc[r] is the statement r is at, arg[r] its
\* call, out[r] its frame: the item it is at (i), the results it has so far
\* and the local variables of predict_single (loc).
Requests == {"r1", "r2"}

\* the predictors the requests share
ConcurrentPredictors ==
    {q \in Predictors :
        q.scaler.is_fitted =>
            /\ q.scaler.original_min = Some(0)
            /\ q.scaler.original_max = Some(MaxRaw)}

\* the tickets of the requests
ConcurrentItems(p) ==
    {it \in BatchItems(p) :
        /\ it.o \in Oracles(p, it.text)
        /\ it.o.lang \in {"en", "unused"}
        /\ it.o.enc = "raise" => it.o.reg.val = 0}

\* the calls: predict_single(text) or predict_batch of two different tickets
ConcurrentCalls(p) ==
    {[kind |-> "single", items |-> <<it>>] : it \in ConcurrentItems(p)}
        \cup {[kind |-> "batch", items |-> ab] :
                ab \in {x \in ConcurrentItems(p) \X ConcurrentItems(p) :
                           x[1].o.reg # x[2].o.reg}}

\* the locals of predict_single before any is assigned
NoLocals == [processed_text |-> <<>>, raw_prediction |-> 0, severity_score |-> RInt(0)]

\* the frame of a call that has just been entered
Entered(call) ==
    [kind |-> call.kind, items |-> call.items, i |-> 1, results |-> <<>>,
     at |-> "validate", loc |-> NoLocals]

\* predict_single returns result; predict_batch tags it with the ticket's
\* index, appends it and goes on to the next ticket
ReturnResult(f, result) ==
    LET tagged == IF f.kind = "batch"
                  THEN result @@ [ticket_index |-> f.i - 1] ELSE result
        more == f.kind = "batch" /\ f.i < Len(f.items)
    IN  [f EXCEPT !.results = Append(@, tagged),
                  !.i = IF more THEN @ + 1 ELSE @,
                  !.at = IF more THEN "validate" ELSE "done",
                  !.loc = NoLocals]

\* if not ticket_text or not ticket_text.strip()
ValidateStmt(f) ==
    IF IsBlank(f.items[f.i].text)
    THEN ReturnResult(f, EmptyResult)
    ELSE [f EXCEPT !.at = "preprocess"]

\* processed_text = self.preprocess_text(ticket_text)
PreprocessStmt(f) ==
    [f EXCEPT !.loc.processed_text =
                  PreprocessText(f.items[f.i].text, f.items[f.i].o).ret,
              !.at = "extract"]

\* features = self.extract_features(processed_text)
ExtractStmt(f) ==
    IF ~ExtractFeatures(f.loc.processed_text, f.items[f.i].o.enc).ok
    THEN ReturnResult(f, DegradedResult("encode failed"))
    ELSE [f EXCEPT !.at = "predict"]

\* raw_prediction = self.model.predict(features)[0]
PredictStmt(f) ==
    IF f.items[f.i].o.reg.kind # "ok"
    THEN ReturnResult(f, DegradedResult("predict failed"))
    ELSE [f EXCEPT !.loc.raw_prediction = f.items[f.i].o.reg.val,
                   !.at = "scale"]

\* severity_score = self.scaler.clip_scores(self.scaler.transform(raw_prediction))
ScaleStmt(p, f) ==
    LET t == Transform(p.scaler, f.loc.raw_prediction)
    IN  IF ~t.ok
        THEN ReturnResult(f, DegradedResult("Scaler must be fitted before transform"))
        ELSE [f EXCEPT !.loc.severity_score = ClipScores(p.scaler, t.val),
                       !.at = "result"]

\* the category, the confidence and the result dictionary
ResultStmt(p, f) ==
    ReturnResult(f,
        [severity_score |-> f.loc.severity_score,
         severity_category |-> GetSeverityCategory(f.loc.severity_score),
         confidence |-> CalculateConfidence(p, f.items[f.i].o.trees).ret,
         processed_text |-> f.loc.processed_text,
         detected_language |->
             DetectLanguage(f.items[f.i].text, f.items[f.i].o.lang).ret])

\* Statement keeping the raw prediction in a field of the predictor
\* between the regressor and the scaler
StatementSharedScratch(p, f) ==
    IF f.at = "predict" /\ f.items[f.i].o.reg.kind = "ok"
    THEN [p |-> [scaler |-> p.scaler, ensemble |-> p.ensemble,
                 raw_prediction |-> f.items[f.i].o.reg.val],
          f |-> [f EXCEPT !.at = "scale"]]
    ELSE IF f.at = "scale"
    THEN [p |-> p,
          f |-> ScaleStmt(p, [f EXCEPT !.loc.raw_prediction = p.raw_prediction])]
    ELSE [p |-> p,
          f |-> (CASE f.at = "validate" -> ValidateStmt(f)
                   [] f.at = "preprocess" -> PreprocessStmt(f)
                   [] f.at = "extract" -> ExtractStmt(f)
                   [] f.at = "predict" -> PredictStmt(f)
                   [] f.at = "result" -> ResultStmt(p, f))]

\* the next statement of the call with frame f on predictor p: [p, f], the
\* predictor and the frame after it
Statement(p, f) ==
    [p |-> p,
     f |-> (CASE f.at = "validate" -> ValidateStmt(f)
              [] f.at = "preprocess" -> PreprocessStmt(f)
              [] f.at = "extract" -> ExtractStmt(f)
              [] f.at = "predict" -> PredictStmt(f)
              [] f.at = "scale" -> ScaleStmt(p, f)
              [] f.at = "result" -> ResultStmt(p, f))]

InitConcurrent ==
    /\ pred \in ConcurrentPredictors
    /\ sc = NewScaler(10, 100)
    /\ fitted = <<>>
    /\ pc = [r \in Requests |-> "idle"]
    /\ op = "none"
    /\ arg = [r \in Requests |-> <<>>]
    /\ out = [r \in Requests |-> <<>>]

\* request r enters predict_single or predict_batch
Arrive(r) ==
    /\ pc[r] = "idle"
    /\ \E call \in ConcurrentCalls(pred) :
        /\ arg' = [arg EXCEPT ![r] = <<call>>]
        /\ out' = [out EXCEPT ![r] = <<Entered(call)>>]
    /\ pc' = [pc EXCEPT ![r] = "validate"]
    /\ UNCHANGED <<pred, sc, fitted, op>>

\* request r runs its next statement
Advance(r) ==
    /\ pc[r] \notin {"idle", "done"}
    /\ LET s == Statement(pred, out[r][1])
       IN  /\ pred' = s.p
           /\ out' = [out EXCEPT ![r] = <<s.f>>]
           /\ pc' = [pc EXCEPT ![r] = s.f.at]
    /\ UNCHANGED <<sc, fitted, op, arg>>

\* request r has been answered
Respond(r) ==
    /\ pc[r] = "done"
    /\ pc' = [pc EXCEPT ![r] = "idle"]
    /\ arg' = [arg EXCEPT ![r] = <<>>]
    /\ out' = [out EXCEPT ![r] = <<>>]
    /\ UNCHANGED <<pred, sc, fitted, op>>

NextConcurrent ==
    \E r \in Requests :
        \/ Arrive(r)
        \/ Advance(r)
        \/ Respond(r)

SpecConcurrent == InitConcurrent /\ [][NextConcurrent]_vars

\* ================================================================ claims
SingleDone == pc = "done" /\ op = "predict_single"
BatchDone == pc = "done" /\ op = "predict_batch"
DetectDone == pc = "done" /\ op = "detect_language"

\* the text holds nothing but whitespace (or is None or empty)
OnlyWhitespace(t) == t = NoneText \/ \A i \in 1..Len(t) : t[i] = " "

\* a result is the degraded result of a failed request
IsDegraded(r) ==
    /\ r.severity_score = <<50, 1>>
    /\ r.severity_category = "Medium"
    /\ r.confidence = <<0, 1>>
    /\ "error" \in DOMAIN r

\* record r without its field f
Without(r, f) == [g \in DOMAIN r \ {f} |-> r[g]]

\* C1: every result of predict_single has 10 <= severity_score <= 100,
\* whatever the collaborators and the loaded scaler state are.
C1_ScoreInRange ==
    SingleDone =>
        /\ RLe(<<10, 1>>, out[1].ret.severity_score)
        /\ RLe(out[1].ret.severity_score, <<100, 1>>)

\* C2: the severity_category of every result of predict_single is
\* get_severity_category of the severity_score of that result.
C2_CategoryFromScore ==
    SingleDone =>
        out[1].ret.severity_category = GetSeverityCategory(out[1].ret.severity_score)

\* C3: for empty, None or whitespace-only text predict_single returns
\* score 10.0, category Low and confidence 0.0 and invokes no collaborator.
C3_EmptyShortCircuit ==
    (SingleDone /\ OnlyWhitespace(arg[1].text)) =>
        /\ out[1].ret.severity_score = <<10, 1>>
        /\ out[1].ret.severity_category = "Low"
        /\ out[1].ret.confidence = <<0, 1>>
        /\ out[1].calls = {}

\* C3 witness: predict_single has returned for a whitespace-only text
C3_Witness ==
    /\ SingleDone
    /\ arg[1].text = <<" ", " ">>
    /\ out[1].ret.severity_score = <<10, 1>>

\* C4: predict_batch returns one result per input, in input order; result i
\* has ticket_index i and otherwise equals predict_single of item i.
C4_BatchOrder ==
    BatchDone =>
        /\ Len(out) = Len(arg)
        /\ \A i \in 1..Len(arg) :
            /\ out[i].ret.ticket_index = i - 1
            /\ Without(out[i].ret, "ticket_index")
                   = PredictSingle(pred, arg[i].text, arg[i].o).ret

\* C4 witness: a batch of two different tickets has returned, the first a
\* normal prediction and the second the empty-input result
C4_Witness ==
    /\ BatchDone
    /\ Len(arg) = 2
    /\ arg[1].text = <<"a">>
    /\ arg[2].text = <<>>
    /\ "error" \notin DOMAIN out[1].ret
    /\ out[2].ret.ticket_index = 1

\* C5: in a batch, an item whose encoding fails gets severity_score 50.0
\* and an error field (the list being full-length).
C5_BatchEncodeFailure ==
    BatchDone =>
        /\ Len(out) = Len(arg)
        /\ \A i \in 1..Len(arg) :
            "embedding_model.encode" \in out[i].raised =>
                /\ out[i].ret.severity_score = <<50, 1>>
                /\ "error" \in DOMAIN out[i].ret

\* C6: when the embedding model fails on a non-empty cleaned text,
\* predict_single returns the degraded result with the error field.
C6_EncodeFailureFatal ==
    (SingleDone /\ "embedding_model.encode" \in out[1].raised) =>
        IsDegraded(out[1].ret)

\* C7 as claimed: whenever the regressor or the scaler raises at any step,
\* predict_single returns the degraded result.
C7_AnyRaiseDegrades ==
    (SingleDone /\ out[1].raised
          \cap {"model.predict", "scaler.transform", "estimator.predict"} # {}) =>
        IsDegraded(out[1].ret)

\* C7 amended: predict_single always returns a result, never an exception;
\* if the regressor's predict or the scaler's transform raises, it is the
\* degraded result; if an ensemble member raises during the confidence
\* estimate, it is a normal result with confidence 0.5 and no error field.
C7_RaiseHandled ==
    SingleDone =>
        /\ "exception" \notin DOMAIN out[1].ret
        /\ "severity_score" \in DOMAIN out[1].ret
        /\ (out[1].raised \cap {"model.predict", "scaler.transform"} # {}
                => IsDegraded(out[1].ret))
        /\ ("estimator.predict" \in out[1].raised
                => /\ "error" \notin DOMAIN out[1].ret
                   /\ out[1].ret.confidence = <<1, 2>>)

\* C7 witness: the scaler raised (it was loaded unfitted) and the caller
\* got the degraded result
C7_Witness ==
    /\ SingleDone
    /\ "scaler.transform" \in out[1].raised
    /\ IsDegraded(out[1].ret)

Transformed ==
    IF op = "transform"
    THEN {<<arg[1], out[1].val>>}
    ELSE {<<arg[i], out[1].val[i]>> : i \in 1..Len(arg)}

\* a transform call has returned from a default-bounds scaler fitted on the
\* list `fitted`, and every raw score it was given is an element of `fitted`
TransformOfFitted ==
    /\ pc = "done"
    /\ op \in {"transform", "transform_all"}
    /\ sc.min_score = 10
    /\ sc.max_score = 100
    /\ sc.is_fitted
    /\ out[1].ok
    /\ \A p \in Transformed : \E i \in 1..Len(fitted) : fitted[i] = p[1]

\* C10 as claimed: a default-bounds scaler fitted on P maps every element
\* of P into [10, 100], min(P) to 10 and max(P) to 100.
C10_BoundaryPreserved ==
    TransformOfFitted =>
        \A p \in Transformed :
            /\ RLe(<<10, 1>>, p[2]) /\ RLe(p[2], <<100, 1>>)
            /\ (p[1] = SeqMin(fitted) => p[2] = <<10, 1>>)
            /\ (p[1] = SeqMax(fitted) => p[2] = <<100, 1>>)

\* C10 amended: a default-bounds scaler fitted on P maps every element of P
\* into [10, 100] and min(P) to 10; it maps max(P) to 100 when P holds two
\* different values, and to 10 when all elements of P are equal.
C10_BoundaryPreservedDistinct ==
    TransformOfFitted =>
        \A p \in Transformed :
            /\ RLe(<<10, 1>>, p[2]) /\ RLe(p[2], <<100, 1>>)
            /\ (p[1] = SeqMin(fitted) => p[2] = <<10, 1>>)
            /\ (p[1] = SeqMax(fitted) /\ SeqMin(fitted) < SeqMax(fitted)
                    => p[2] = <<100, 1>>)
            /\ (SeqMin(fitted) = SeqMax(fitted) => p[2] = <<10, 1>>)

\* C10 witness: fit on <<0, 1, 2>> and transform of the same list, giving
\* 10 for the minimum, 100 for the maximum and a score between for 1
C10_Witness ==
    /\ TransformOfFitted
    /\ op = "transform_all"
    /\ fitted = <<0, 1, 2>>
    /\ arg = fitted
    /\ out[1].val[1] = <<10, 1>>
    /\ out[1].val[3] = <<100, 1>>
    /\ RLt(<<10, 1>>, out[1].val[2]) /\ RLt(out[1].val[2], <<100, 1>>)

\* the five bands of the tests and of the API description
FiveBand(score) ==
    IF RGe(score, <<80, 1>>) THEN "Critical"
    ELSE IF RGe(score, <<60, 1>>) THEN "High"
    ELSE IF RGe(score, <<40, 1>>) THEN "Medium"
    ELSE IF RGe(score, <<20, 1>>) THEN "Low"
    ELSE "Minimal"

\* C11: get_severity_category assigns the five bands: Critical for 80-100,
\* High for 60-79, Medium for 40-59, Low for 20-39, Minimal for 10-19.
C11_FiveBands ==
    (pc = "done" /\ op = "get_severity_category"
        /\ RLe(<<10, 1>>, arg[1]) /\ RLe(arg[1], <<100, 1>>)) =>
        out[1] = FiveBand(arg[1])

ClipDone == pc = "done" /\ op = "clip_scores"

\* C12: clip_scores clamps any value to [10, 100]: below 10 it
\* gives 10, above 100 it gives 100, inside the value; clipping twice is
\* clipping once.
C12_ClipTo10And100 ==
    ClipDone =>
        /\ (RLt(arg[1], <<10, 1>>) => out[1] = <<10, 1>>)
        /\ (RLt(<<100, 1>>, arg[1]) => out[1] = <<100, 1>>)
        /\ (RLe(<<10, 1>>, arg[1]) /\ RLe(arg[1], <<100, 1>>) => out[1] = arg[1])
        /\ ClipScores(sc, out[1]) = out[1]

\* C18: the remap sends a stage-A score s in [10, 100] into its band:
\* s >= 60 into [90, 100] by 90 + ((s-60)/40)*10, 40 <= s < 60 into
\* [80, 89] by 80 + ((s-40)/20)*9, s < 40 into [10, 79] by
\* 10 + ((s-10)/30)*69.
C18_RemapBands ==
    (pc = "done" /\ op = "remap_score"
        /\ RLe(<<10, 1>>, arg[1]) /\ RLe(arg[1], <<100, 1>>)) =>
        LET s == arg[1]
            r == out[1]
        IN  /\ RLe(<<60, 1>>, s) =>
                /\ RLe(<<90, 1>>, r) /\ RLe(r, <<100, 1>>)
                /\ r = Rat(360 * s[2] + (s[1] - 60 * s[2]), 4 * s[2])
            /\ (RLe(<<40, 1>>, s) /\ RLt(s, <<60, 1>>)) =>
                /\ RLe(<<80, 1>>, r) /\ RLe(r, <<89, 1>>)
                /\ r = Rat(1600 * s[2] + 9 * (s[1] - 40 * s[2]), 20 * s[2])
            /\ RLt(s, <<40, 1>>) =>
                /\ RLe(<<10, 1>>, r) /\ RLe(r, <<79, 1>>)
                /\ r = Rat(300 * s[2] + 69 * (s[1] - 10 * s[2]), 30 * s[2])

\* C18 witness: the remap has sent 50 to 84.5, inside the middle band
C18_Witness ==
    /\ pc = "done" /\ op = "remap_score"
    /\ arg[1] = <<50, 1>>
    /\ out[1] = <<169, 2>>

\* predict_single has returned a normal result (no error field)
NormalDone == SingleDone /\ "error" \notin DOMAIN out[1].ret

\* clip(1 - variance/50, 0, 1) of the members' predictions, when there are any
VarianceForm(trees) ==
    IF trees.kind = "ok"
    THEN LET c == RSub(<<1, 1>>, RDiv(Variance(trees.preds), <<50, 1>>))
         IN  <<IF RLt(c, <<0, 1>>) THEN <<0, 1>>
               ELSE IF RLt(<<1, 1>>, c) THEN <<1, 1>> ELSE c>>
    ELSE <<>>

ConfidenceInUnit ==
    SingleDone =>
        /\ RLe(<<0, 1>>, out[1].ret.confidence)
        /\ RLe(out[1].ret.confidence, <<1, 1>>)

\* C16 as claimed: confidence lies in [0, 1]; on the normal path it is
\* clip(1 - variance/50, 0, 1) of the members' predictions when the
\* regressor is an ensemble, and 0.8 otherwise.
C16_TwoForms ==
    /\ ConfidenceInUnit
    /\ NormalDone =>
        IF pred.ensemble
        THEN <<out[1].ret.confidence>> = VarianceForm(arg[1].o.trees)
        ELSE out[1].ret.confidence = <<4, 5>>

\* C16 amended: confidence lies in [0, 1]; on the normal path it is
\* clip(1 - variance/50, 0, 1) of the members' predictions when the
\* regressor is an ensemble whose members all predict, 0.5 when the
\* regressor is an ensemble and a member's predict raises, and 0.8 when
\* the regressor is not an ensemble.
C16_ThreeForms ==
    /\ ConfidenceInUnit
    /\ NormalDone =>
        IF pred.ensemble
        THEN IF arg[1].o.trees.kind = "ok"
             THEN <<out[1].ret.confidence>> = VarianceForm(arg[1].o.trees)
             ELSE out[1].ret.confidence = <<1, 2>>
        ELSE out[1].ret.confidence = <<4, 5>>

\* C16 witness: a member of the ensemble raised and the normal result
\* carries confidence 0.5
C16_Witness ==
    /\ NormalDone
    /\ pred.ensemble
    /\ arg[1].o.trees.kind = "raise"
    /\ out[1].ret.confidence = <<1, 2>>

\* C17: every result of predict_single is accepted by validate_prediction,
\* for any loadable scaler state, non-default score bounds included.
C17_ResultValidates ==
    SingleDone => ValidatePrediction(out[1].ret)

C20_NoLibraryCall ==
    (DetectDone /\ (\/ arg[1].text = NoneText
                    \/ Len(Strip(arg[1].text)) < 3
                    \/ CleanForDetection(arg[1].text) = <<>>)) =>
        /\ out[1].ret = "en"
        /\ out[1].calls = {}

\* C20 witness: detect_language has returned en for "@ @", three characters
\* long and empty once cleaned, without a call
C20_Witness ==
    /\ DetectDone
    /\ arg[1].text = <<"@", " ", "@">>
    /\ out[1].ret = "en"
    /\ out[1].calls = {}

\* C14: constructing a SeverityPredictor fails whenever one of the three
\* artifacts (regressor, scaler, embedding configuration) is missing or
\* corrupt; it never falls back to a default, and no predictor able to
\* serve requests exists afterwards.
C14_MissingArtifactFatal ==
    (pc = "done" /\ op = "construct"
        /\ (\/ arg[1].model \in {"missing", "corrupt"}
            \/ arg[1].scaler.kind \in {"missing", "corrupt"}
            \/ arg[1].info \in {"missing", "corrupt"})) =>
        /\ ~out[1].ok
        /\ pred = <<>>

\* C13: clean_text is idempotent: for every text and each language in
\* {en, hi}, cleaning the cleaned text gives the cleaned text again, also
\* when removals make the words of 'sign in' / 'sign on' adjacent.
C13_CleanIdempotent ==
    (pc = "done" /\ op = "clean_again") => out[1] = arg[1].text

RegressedAndScaled ==
    /\ arg[1].o.reg.kind = "ok"
    /\ pred.scaler.is_fitted

\* C21 as claimed: if language detection or text cleaning raises in the
\* preprocessing step of predict_single, the request goes on with the raw
\* text as processed_text and returns a normal result.
C21_RawTextFallback ==
    (SingleDone /\ (arg[1].o.lang = "raise" \/ arg[1].o.clean = "raise")) =>
        /\ "error" \notin DOMAIN out[1].ret
        /\ out[1].ret.processed_text = arg[1].text

\* C21 amended: if text cleaning raises, the request goes on with the raw
\* text as processed_text; if the detection library raises, detect_language
\* answers en and the request goes on with the cleaner's output.  In both
\* cases the result is a normal one whenever the regressor and the scaler
\* do not raise afterwards.
C21_FallbackByStep ==
    (SingleDone /\ (arg[1].o.lang = "raise" \/ arg[1].o.clean = "raise")) =>
        /\ RegressedAndScaled <=> "error" \notin DOMAIN out[1].ret
        /\ RegressedAndScaled =>
            /\ arg[1].o.clean = "raise" =>
                  out[1].ret.processed_text = arg[1].text
            /\ arg[1].o.clean = "kept" =>
                  out[1].ret.processed_text = Strip(arg[1].text)
            /\ arg[1].o.clean = "empty" =>
                  out[1].ret.processed_text = <<>>
            /\ arg[1].o.lang = "raise" =>
                  out[1].ret.detected_language = "en"

\* C21 witness: the cleaner raised for " a" and the normal result carries
\* the raw text
C21_Witness ==
    /\ SingleDone
    /\ arg[1].text = <<" ", "a">>
    /\ arg[1].o.clean = "raise"
    /\ "error" \notin DOMAIN out[1].ret
    /\ out[1].ret.processed_text = <<" ", "a">>

KeptByStopwords(w, language) ==
    \/ w \in {"down", "login", "error", "bug"}
    \/ IF language = "hi" THEN w # "hai" ELSE w \notin {"the", "in", "on"}

\* the tokens of ws that stopword removal keeps, in order
RECURSIVE Filtered(_, _)
Filtered(ws, language) ==
    IF ws = <<>> THEN <<>>
    ELSE IF KeptByStopwords(ws[1], language)
         THEN <<ws[1]>> \o Filtered(Tail(ws), language)
         ELSE Filtered(Tail(ws), language)

StopwordsDone == pc = "done" /\ op = "remove_stopwords"

\* C22 as claimed: stopword removal never drops a token whose lowercase
\* form is in the preserve-set, in either language and even when it is a
\* stopword (down); every other token that is in the stopword list of the
\* language is dropped.
C22_PreserveAndDrop ==
    StopwordsDone => out[1] = Filtered(arg[1].text, arg[1].language)

\* C22 amended: when word_tokenize succeeds, stopword removal never drops a
\* token whose lowercase form is in the preserve-set and drops every other
\* token that is in the stopword list of the language; when word_tokenize
\* raises, it returns its text unchanged, stopwords included.
C22_PreserveAndDropTokenized ==
    StopwordsDone =>
        IF arg[1].tok = "ok"
        THEN out[1] = Filtered(arg[1].text, arg[1].language)
        ELSE out[1] = arg[1].text

\* C22 witness: of "the down" English stopword removal has kept "down"
C22_Witness ==
    /\ StopwordsDone
    /\ arg[1].text = <<"the", "down">>
    /\ arg[1].language = "en"
    /\ arg[1].tok = "ok"
    /\ out[1] = <<"down">>

CleanDone == pc = "done" /\ op = "clean_text"

\* the text is None, empty or whitespace only
BlankTicket(t) == t = NoneTicket \/ \A i \in 1..Len(t) : t[i] = ""

\* the result is a string: a sequence of words, maybe none
IsCleanedString(r) ==
    \A i \in 1..Len(r) :
        r[i] \in {"sign", "in", "on", "the", "hai", "down", "login", "error"}

\* C23 as claimed: clean_text never raises and never returns null; it
\* returns the empty string for empty, None and whitespace-only input, and
\* the text as of step 4 when tokenization fails.
C23_TotalStep4 ==
    CleanDone =>
        /\ IsCleanedString(out[1])
        /\ BlankTicket(arg[1].text) => out[1] = <<>>
        /\ (arg[1].tok = "raise" /\ arg[1].text # NoneTicket) =>
              out[1] = NormalizeWhitespace(NormalizeItTerms(
                         RemoveUrlsEmails(BasicClean(arg[1].text))))

\* C23 amended: clean_text never raises and never returns null; it returns
\* the empty string for empty, None and whitespace-only input; when
\* tokenization fails, stopword removal is skipped and the result is the
\* lowercased text of step 4 after the final cleanup (standalone
\* punctuation and one-character tokens removed).
C23_TotalFinalCleanup ==
    CleanDone =>
        /\ IsCleanedString(out[1])
        /\ BlankTicket(arg[1].text) => out[1] = <<>>
        /\ (arg[1].tok = "raise" /\ arg[1].text # NoneTicket) =>
              out[1] = FinalCleanup(Lower(NormalizeWhitespace(NormalizeItTerms(
                         RemoveUrlsEmails(BasicClean(arg[1].text))))))

\* C23 witness: the tokenizer raised for "The x down" and clean_text
\* returned "the down"
C23_Witness ==
    /\ CleanDone
    /\ arg[1].text = <<"The", "x", "down">>
    /\ arg[1].tok = "raise"
    /\ out[1] = <<"the", "down">>

\* m is the least (greatest) element of the list xs
IsLeastOf(m, xs) == (\E i \in 1..Len(xs) : xs[i] = m) /\ \A i \in 1..Len(xs) : m <= xs[i]
IsGreatestOf(m, xs) == (\E i \in 1..Len(xs) : xs[i] = m) /\ \A i \in 1..Len(xs) : xs[i] <= m

\* one call of the scaler, from its start to its return
ScalerCallStep ==
    (pc = "idle" /\ pc' = "done") =>
        /\ (op' \in {"transform", "transform_all", "inverse_transform", "save_scaler"}
                /\ ~sc.is_fitted) =>
              /\ ~out'[1].ok
              /\ sc' = sc
        /\ (op' = "fit" /\ arg' = <<>>) =>
              /\ ~out'[1].ok
              /\ sc' = sc
        /\ (op' = "fit" /\ arg' # <<>>) =>
              /\ out'[1].ok
              /\ sc'.is_fitted
              /\ sc'.original_min # <<>> /\ IsLeastOf(sc'.original_min[1], arg')
              /\ sc'.original_max # <<>> /\ IsGreatestOf(sc'.original_max[1], arg')

\* C24: on an unfitted scaler transform, inverse_transform and save_scaler
\* raise and change no state; fit on an empty list raises and leaves the
\* scaler as it was, unfitted; after a successful fit is_fitted is true and
\* original_min and original_max are the least and the greatest of the
\* fitted raw scores.
C24_FittedBeforeUse == [][ScalerCallStep]_vars

\* C24 witness: inverse_transform has raised on an unfitted scaler, which
\* is still as constructed
C24_Witness ==
    /\ pc = "done"
    /\ op = "inverse_transform"
    /\ ~out[1].ok
    /\ sc \in {NewScaler(10, 100), NewScaler(0, 200)}

\* C25: a fitted scaler saved and loaded into a fresh SeverityScaler has
\* its is_fitted, fitted min and max and score bounds back verbatim, so
\* transform and clip_scores of the loaded scaler give the same value as
\* those of the saved one for every raw score.
C25_SaveLoadRoundTrip ==
    (pc = "done" /\ op = "load_scaler") =>
        /\ pred.scaler.is_fitted = sc.is_fitted
        /\ pred.scaler.original_min = sc.original_min
        /\ pred.scaler.original_max = sc.original_max
        /\ pred.scaler.min_score = sc.min_score
        /\ pred.scaler.max_score = sc.max_score
        /\ \A x \in RawScores :
            /\ Transform(pred.scaler, x) = Transform(sc, x)
            /\ ClipScores(pred.scaler, Transform(pred.scaler, x).val)
                 = ClipScores(sc, Transform(sc, x).val)

\* C25 witness: a scaler with the bounds (0, 200) fitted on 0..1 was saved
\* and a fresh scaler has loaded it
C25_Witness ==
    /\ pc = "done"
    /\ op = "load_scaler"
    /\ sc.min_score = 0 /\ sc.max_score = 200
    /\ sc.original_min = <<0>> /\ sc.original_max = <<1>>
    /\ pred.scaler.max_score = 200
    /\ pred.scaler.is_fitted

\* C28: the piecewise remap is strictly increasing over the stage-A
\* scores, across the band boundaries at 40 and 60 too; hence transform
\* followed by clip_scores never reverses the order of two raw scores.
C28_RemapIncreasing ==
    /\ (pc = "done" /\ op = "remap_score") =>
          \A b \in ScoreGrid :
              RLt(arg[1], b) => RLt(out[1], RemapScore(b))
    /\ (pc = "done" /\ op = "transform_all" /\ out[1].ok) =>
          \A i, j \in 1..Len(arg) :
              arg[i] < arg[j] =>
                  /\ RLt(out[1].val[i], out[1].val[j])
                  /\ RLe(ClipScores(sc, out[1].val[i]), ClipScores(sc, out[1].val[j]))

\* C28 witness: the remap has sent 39.5 to 77.85, below the 80 it gives 40
C28_Witness ==
    /\ pc = "done"
    /\ op = "remap_score"
    /\ arg[1] = <<79, 2>>
    /\ out[1] = <<1557, 20>>
    /\ RemapScore(<<40, 1>>) = <<80, 1>>

\* C29: for a fitted scaler and every raw score x within the fitted range,
\* inverse_transform(transform(x)) is x.
C29_InverseOfTransform ==
    (pc = "done" /\ op = "inverse_transform" /\ sc.is_fitted) =>
        \A x \in RawScores :
            (/\ sc.original_min[1] <= x
             /\ x <= sc.original_max[1]
             /\ arg[1] = Transform(sc, x).val) => out[1].val = <<x, 1>>


\* the predictor result behind a finished /predict request
RouteDone == pc = "done" /\ op = "predict_severity"
RouteResult == PredictSingle(pred[1], Strip(arg[1].text), arg[1].o).ret
RouteValid == ValidateTicketText(arg[1].text).ok

\* C30: /predict answers 200 only when the predictor's result has no error
\* field and passes validate_prediction, and then with that result's score
\* and category; a valid request gets 503 while no predictor is bound and 500
\* when the result is degraded or invalid, and no answer other than a 200
\* carries a score.
C30_SurfaceOnlyValid ==
    RouteDone =>
        /\ out[1].status = 200 =>
              /\ RouteValid
              /\ pred # <<>>
              /\ "error" \notin DOMAIN RouteResult
              /\ ValidatePrediction(RouteResult)
              /\ out[1].severity_score = RouteResult.severity_score
              /\ out[1].severity_category = RouteResult.severity_category
        /\ (RouteValid /\ pred = <<>>) => out[1].status = 503
        /\ (RouteValid /\ pred # <<>>
              /\ ("error" \in DOMAIN RouteResult \/ ~ValidatePrediction(RouteResult)))
              => out[1].status = 500
        /\ out[1].status # 200 => "severity_score" \notin DOMAIN out[1]

\* a result without an error field that fails validation was answered
C30_Witness ==
    /\ RouteDone
    /\ RouteValid
    /\ pred # <<>>
    /\ "error" \notin DOMAIN RouteResult
    /\ ~ValidatePrediction(RouteResult)
    /\ out[1].status = 500


\* what the call returns when it runs with no other request in flight
AloneResults(p, call) ==
    IF call.kind = "single"
    THEN <<PredictSingle(p, call.items[1].text, call.items[1].o).ret>>
    ELSE [i \in 1..Len(call.items) |-> PredictBatch(p, call.items)[i].ret]

\* every finished request holds the results of its call run alone
EachAsAlone ==
    \A r \in Requests :
        pc[r] = "done" => out[r][1].results = AloneResults(pred, arg[r][1])

\* no step of a request changes the shared predictor
PredictorReadOnly == [][pred' = pred]_vars

\* C26: no statement of predict_single or predict_batch writes a field of
\* the shared predictor or of its scaler, and however the statements of
\* concurrent requests interleave, each request returns what its call
\* returns when it runs alone.
C26_ReadOnlyInterleaving == PredictorReadOnly /\ []EachAsAlone

\* one request has returned a scored result while the other, with a
\* different raw prediction in hand, is about to scale it
C26_Witness ==
    /\ pc["r1"] = "done"
    /\ "error" \notin DOMAIN out["r1"][1].results[1]
    /\ pc["r2"] = "scale"
    /\ out["r2"][1].loc.raw_prediction # arg["r1"][1].items[1].o.reg.val

====
